---- MODULE Spec2Model ----
(***************************************************************************)
(* In-memory virtual file of rusqlite's `deserialize` feature              *)
(* (src/src/deserialize.rs): MemFile, HookedFile, the sqlite3_io_methods   *)
(* callbacks c_close .. c_unfetch, and the serialize/deserialize bridge.   *)
(*                                                                         *)
(* One connection with one schema slot is modelled.  A slot is either on   *)
(* SQLite's default "memdb" driver or holds a HookedFile.  A HookedFile    *)
(* owns one strong reference (Rc) to a MemFile; callers obtain further     *)
(* strong references with serialize_rc and may derive weak ones.           *)
(***************************************************************************)
EXTENDS Integers, Sequences, FiniteSets, TLC

(* ---------------------------------------------------------------------- *)
(* Bounds of the model                                                     *)
(* ---------------------------------------------------------------------- *)
\* largest end offset (ofst + amt) a call may name, and largest file length
MaxLen == 3
\* largest number of Rc handles callers hold at one time
MaxHandles == 1
\* pages the backup primitive copies in one step (100 in backup_to_vec)
StepPages == 1
\* CachedStatements callers hold at a time
MaxStmts == 2
\* statements returned to one StatementCache
MaxClock == 5

(* ---------------------------------------------------------------------- *)
(* Input domains                                                           *)
(* ---------------------------------------------------------------------- *)
BufIds == {1}
\* content of the byte vectors handed to deserialize*
InitDatas == {<<>>, <<1>>, <<1, 1>>}
\* spare capacity (capacity - len) of a Vec handed to deserialize*
Spares == {0, 1}
\* size limit of the default memdb file, and arguments of SIZE_LIMIT
SizeLimits == {0, MaxLen + 1}
\* payloads of xWrite
Payloads == {<<1>>, <<1, 1>>}
\* arguments of xTruncate
TruncateSizes == {-1, 0, 1, MaxLen}
FcntlOps == {"SQLITE_FCNTL_VFSNAME", "SQLITE_FCNTL_SIZE_LIMIT", "SQLITE_FCNTL_OTHER"}

Max(a, b) == IF a >= b THEN a ELSE b
Min(a, b) == IF a <= b THEN a ELSE b

(* ---------------------------------------------------------------------- *)
(* MemFile                                                                 *)
(* ---------------------------------------------------------------------- *)
\* a byte of memory that set_len exposed without it ever being written
UNINIT == 255

\* the value of a buffer slot that holds no MemFile
NoBuf == [mode |-> "None", bytes |-> <<>>, cap |-> 0]

\* MemFile::Owned(vec), MemFile::Resizable(vec), MemFile::ReadOnly(slice)
MemFile(mode, bytes, capacity) == [mode |-> mode, bytes |-> bytes, cap |-> capacity]

len(d) == Len(d.bytes)

cap(d) == IF d.mode = "ReadOnly" THEN Len(d.bytes) ELSE d.cap

writable(d) == d.mode # "ReadOnly"

\* MemFile::as_slice: the len bytes from the start of the storage
as_slice(d) == SubSeq(d.bytes, 1, len(d))

\* mutant of to_vec: the last byte is not copied
to_vec_truncated(slice) == [i \in 1..(Len(slice) - 1) |-> slice[i]]

\* <[u8]>::to_vec: a new Vec holding a copy of each byte of the slice
to_vec(slice) == [i \in 1..Len(slice) |-> slice[i]]

\* mutant of released: nothing of the MemFile is left behind
released_freed(d) == [mode |-> "None", bytes |-> <<>>, cap |-> 0]

\* What is left of a MemFile when it is dropped: Owned frees its Vec,
\* ReadOnly ends its view, Resizable ends the &mut borrow of the caller's
\* Vec, which the caller has again ("Vec") with the length and the bytes
\* the handlers gave it in place.
released(d) ==
    IF d.mode = "Resizable" THEN [d EXCEPT !.mode = "Vec"] ELSE NoBuf

\* no MemFile is behind the allocation
freed(d) == d.mode \in {"None", "Vec"}

\* Vec::reserve(additional): nothing when the spare capacity suffices
\* (additional <= capacity.wrapping_sub(len)), else amortized growth to
\* max(2 * capacity, len + additional).  One unit of length stands for one
\* page, so Vec's minimum allocation of 8 bytes is below one unit.
vec_reserve(length, capacity, additional) ==
    IF length > capacity \/ additional <= capacity - length
    THEN capacity
    ELSE Max(2 * capacity, length + additional)

\* MemFile::reserve_additional: <<possible, MemFile after the call>>
reserve_additional(d, additional) ==
    IF d.mode = "ReadOnly"
    THEN <<FALSE, d>>
    ELSE <<TRUE, [d EXCEPT !.cap = vec_reserve(Len(d.bytes), d.cap, additional)]>>

\* MemFile::set_len on a writable MemFile: the bytes in [0, new_len) are
\* whatever the memory image holds; memory never written is UNINIT.
set_len(img, new_len) ==
    [i \in 1..new_len |-> IF i <= Len(img) THEN img[i] ELSE UNINIT]

\* mutant of write_bytes: the gap is left as it is
write_bytes_skipped(img, from, count) == img

\* ptr::write_bytes(base.add(from), 0, count) on a memory image
write_bytes(img, from, count) ==
    [i \in 1..Max(Len(img), from + count) |->
        IF i > from /\ i <= from + count THEN 0
        ELSE IF i <= Len(img) THEN img[i] ELSE UNINIT]

\* mutant of copy_nonoverlapping: the payload lands at the base pointer
copy_nonoverlapping_at_base(img, ofst, buf) ==
    [i \in 1..Max(Len(img), Len(buf)) |->
        IF i <= Len(buf) THEN buf[i]
        ELSE IF i <= Len(img) THEN img[i] ELSE UNINIT]

\* ptr::copy_nonoverlapping(buf, base.add(ofst), amt) on a memory image
copy_nonoverlapping(img, ofst, buf) ==
    [i \in 1..Max(Len(img), ofst + Len(buf)) |->
        IF i > ofst /\ i <= ofst + Len(buf) THEN buf[i - ofst]
        ELSE IF i <= Len(img) THEN img[i] ELSE UNINIT]

(* ---------------------------------------------------------------------- *)
(* State                                                                   *)
(* ---------------------------------------------------------------------- *)
VARIABLES
    bufs,    \* BufIds -> MemFile behind an Rc allocation (NoBuf: none)
    file,    \* the sqlite3_file of the schema slot
    snaps,   \* BufIds -> number of Rc<MemFile> handles held by callers
    weaks,   \* BufIds -> number of Weak<MemFile> handles held by callers
    ret,     \* what the last call of an entry point returned
    ext_live, \* the caller's slice or Vec a borrowed MemFile refers to is allocated
    backup,  \* the fallback copy of serialize: its loop and its output Vec
    db_name, \* the schema the last deserialize or serialize call named
    cache,   \* StatementCache: the VecDeque (front first) and its capacity
    stmts    \* the CachedStatements callers hold

vars == <<bufs, file, snaps, weaks, ret, ext_live, backup, db_name, cache, stmts>>

\* the slot on SQLite's default memdb driver (pMethods = sqlite_io_methods())
DefaultFile == [methods |-> "memdb", data |-> 0, size_max |-> 0, memory_mapped |-> 0]

\* mutant of HookedFile: the size limit of the previous file is not kept
HookedFile_unlimited(b, size_max) ==
    [methods |-> "hooked", data |-> b, size_max |-> 0, memory_mapped |-> 0]

\* struct HookedFile { methods, data, size_max, memory_mapped }
HookedFile(b, size_max) ==
    [methods |-> "hooked", data |-> b, size_max |-> size_max, memory_mapped |-> 0]

hooked == file.methods = "hooked"

\* Rc::strong_count of the allocation b
strong_count(b) == (IF hooked /\ file.data = b THEN 1 ELSE 0) + snaps[b]

\* mutant of rc_get_mut: the reference count is not consulted
rc_get_mut_unchecked(b) == strong_count(b) >= 1

\* Rc::get_mut(&mut file.data).is_some(): the only strong handle, no weak one
rc_get_mut(b) == strong_count(b) = 1 /\ weaks[b] = 0

\* mutant of get_mut: the writable() test is left out
get_mut_any_mode(b) == rc_get_mut(b)

\* HookedFile::get_mut(&mut self).is_some()
get_mut(b) == writable(bufs[b]) /\ rc_get_mut(b)

RECURSIVE SumOver(_, _)
SumOver(f, S) ==
    IF S = {} THEN 0
    ELSE LET x == CHOOSE y \in S : TRUE IN f[x] + SumOver(f, S \ {x})

Sum(f) == SumOver(f, BufIds)

\* memory_mapped is a u16
U16 == 65536

\* op: the entry point, rc: its result, ofst and buf: its arguments,
\* sz: the file length when it was called, out: its output argument,
\* prev: "SQLITE_READONLY" when the identical call right before it was
\* refused as read-only and this one is not, else "none"
RetPrev(op, rc, ofst, buf, sz, out, prev) ==
    [op |-> op, rc |-> rc, ofst |-> ofst, buf |-> buf, sz |-> sz, out |-> out,
     prev |-> prev]

Ret(op, rc, ofst, buf, sz, out) == RetPrev(op, rc, ofst, buf, sz, out, "none")

\* the process has not died in a call
alive == ret.rc # "abort"

\* mutant of catch_unwind: a panic is reported as an I/O error
catch_unwind_as_ioerr(rc) == IF rc = "panic" THEN "SQLITE_IOERR" ELSE rc

\* panic::catch_unwind(body).unwrap_or_else(|e| SQLITE_ERROR): the code the
\* entry point returns when its body ends with rc, "panic" for a panic
catch_unwind(rc) == IF rc = "panic" THEN "SQLITE_ERROR" ELSE rc

\* DatabaseName::Main, and DatabaseName::Attached of a name the connection
\* has no schema for
Main == "main"
Schemas == {Main, "does not exist"}

\* mutant of schema_exists: every name is taken for a schema
schema_exists_always(schema) == TRUE

\* the connection has a schema of that name: sqlite3_file_control(db,
\* schema, SQLITE_FCNTL_FILE_POINTER, ..) and sqlite3_deserialize(db, schema,
\* ..) return SQLITE_OK.  The model has the one slot of Main.
schema_exists(schema) == schema = Main

\* no fallback copy is running
NoBackup ==
    [pc |-> "idle", r |-> "More", src |-> <<>>, db_size |-> 0, copied |-> 0, vec |-> NoBuf]

Init ==
    /\ bufs = [b \in BufIds |-> NoBuf]
    /\ file = DefaultFile
    /\ snaps = [b \in BufIds |-> 0]
    /\ weaks = [b \in BufIds |-> 0]
    /\ ret = Ret("open", "SQLITE_OK", 0, <<>>, 0, 0)
    /\ ext_live = TRUE
    /\ backup = NoBackup
    /\ db_name = Main
    /\ cache = [entries |-> <<>>, capacity |-> 0, clock |-> 0]
    /\ stmts = <<>>

(* ---------------------------------------------------------------------- *)
(* Serialization bridge                                                    *)
(* ---------------------------------------------------------------------- *)
\* mutant of drop_value: the MemFile is dropped with the first handle
drop_value_eager(bs, b, strong_left) == [bs EXCEPT ![b] = released(bs[b])]

\* Dropping one strong handle of b held in `holders` (snaps after the drop)
\* frees the MemFile when no strong handle is left.
drop_value(bs, b, strong_left) ==
    IF strong_left = 0 THEN [bs EXCEPT ![b] = released(bs[b])] ELSE bs

\* c_close: ptr::drop_in_place(file as *mut HookedFile) drops file.data
c_close_bufs == drop_value(bufs, file.data, snaps[file.data])

\* the slot's buffers after sqlite3_deserialize(db, schema, NULL, 0, 0, 0):
\* a hooked file is closed (xClose = c_close), the slot reopens on memdb
reopened_bufs == IF hooked THEN c_close_bufs ELSE bufs

\* an Rc allocation that is free: no value and no weak handle left.  With
\* one allocation in BufIds a slot is re-attached only after the callers
\* have dropped their handles of the previous buffer.
FreeIds == {b \in BufIds : freed(reopened_bufs[b]) /\ weaks[b] = 0 /\ snaps[b] = 0}

\* Connection::deserialize_hook(schema, data); size_limit is what the
\* reopened memdb file answers to SQLITE_FCNTL_SIZE_LIMIT
deserialize_hook(op, schema, data, size_limit) ==
    /\ alive
    /\ db_name' = schema
    /\ IF schema_exists(schema)
       THEN /\ FreeIds # {}
            /\ LET b == CHOOSE x \in FreeIds : \A y \in FreeIds : x <= y IN
               /\ bufs' = [reopened_bufs EXCEPT ![b] = data]
               /\ file' = HookedFile(b, size_limit)
            /\ ret' = RetPrev(op, "Ok", 0, data.bytes, 0, size_limit,
                              IF ret.op = "serialize" /\ ret.rc = "Ok" /\ ret.buf = data.bytes
                              THEN "serialize" ELSE "none")
            /\ ext_live' = TRUE
       ELSE \* c.decode_result(rc)? returns the error; data is dropped
            /\ ret' = Ret(op, "Err", 0, data.bytes, 0, 0)
            /\ UNCHANGED <<bufs, file, ext_live, cache, stmts>>
    /\ UNCHANGED <<snaps, weaks, backup, cache, stmts>>

\* Connection::deserialize(schema, data: Vec<u8>)
deserialize(schema, bytes, spare, size_limit) ==
    deserialize_hook("deserialize", schema, MemFile("Owned", bytes, Len(bytes) + spare), size_limit)

\* BorrowingConnection::deserialize_read_only(db, slice)
deserialize_read_only(schema, bytes, size_limit) ==
    deserialize_hook("deserialize_read_only", schema, MemFile("ReadOnly", bytes, Len(bytes)), size_limit)

\* BorrowingConnection::deserialize_resizable(db, vec)
deserialize_resizable(schema, bytes, spare, size_limit) ==
    deserialize_hook("deserialize_resizable", schema,
                     MemFile("Resizable", bytes, Len(bytes) + spare), size_limit)

\* mutant of rc_clone: the handle is handed out without being counted
rc_clone_uncounted(strong) == strong

\* Rc::clone(&hooked.data): the strong count after the clone
rc_clone(strong) == strong + 1

\* BorrowingConnection::serialize_rc(db)
serialize_rc ==
    /\ alive
    /\ Sum(snaps) < MaxHandles
    /\ IF hooked
       THEN /\ snaps' = [snaps EXCEPT ![file.data] = rc_clone(strong_count(file.data)) - 1]
            /\ ret' = Ret("serialize_rc", "Some", 0, <<>>, 0, file.data)
       ELSE /\ snaps' = snaps
            /\ ret' = Ret("serialize_rc", "None", 0, <<>>, 0, 0)
    /\ UNCHANGED <<bufs, file, weaks, ext_live, backup, db_name, cache, stmts>>

\* a caller drops an Rc<MemFile> obtained from serialize_rc
drop_rc(b) ==
    /\ alive
    /\ snaps[b] > 0
    /\ snaps' = [snaps EXCEPT ![b] = @ - 1]
    /\ bufs' = drop_value(bufs, b, strong_count(b) - 1)
    /\ UNCHANGED <<file, weaks, ret, ext_live, backup, db_name, cache, stmts>>

\* xClose, run by the engine when the schema is detached ("detach") or the
\* connection is dropped ("drop_connection"); the slot holds no hooked file
\* afterwards.  ret.out is the strong count before the call.
c_close(op) ==
    /\ alive /\ hooked
    /\ bufs' = c_close_bufs
    /\ file' = DefaultFile
    /\ ret' = Ret(op, catch_unwind("SQLITE_OK"), 0, <<>>, len(bufs[file.data]),
                  strong_count(file.data))
    /\ UNCHANGED <<snaps, weaks, ext_live, backup, db_name, cache, stmts>>

\* a caller derives a Weak<MemFile> from a handle it holds (Rc::downgrade);
\* callers keep at most one weak handle
downgrade(b) ==
    /\ alive
    /\ snaps[b] > 0
    /\ weaks[b] = 0
    /\ weaks' = [weaks EXCEPT ![b] = @ + 1]
    /\ UNCHANGED <<bufs, file, snaps, ret, ext_live, backup, db_name, cache, stmts>>

\* a caller drops a Weak<MemFile>
drop_weak(b) ==
    /\ alive
    /\ weaks[b] > 0
    /\ weaks' = [weaks EXCEPT ![b] = @ - 1]
    /\ UNCHANGED <<bufs, file, snaps, ret, ext_live, backup, db_name, cache, stmts>>

(* ---------------------------------------------------------------------- *)
(* Callback table                                                          *)
(* ---------------------------------------------------------------------- *)
\* mutant of lease_outstanding: the lease count is not consulted
lease_ignored(f) == FALSE

\* c_write, line 449: growth is refused while a page lease is outstanding
lease_outstanding(f) == f.memory_mapped > 0

\* c_write, line 455: the capacity after the reserve is over the cap
over_size_max(d, f) == cap(d) > f.size_max

\* c_write, lines 459-464: zero the gap, set the length, copy the payload
write_data(d, sz, ofst, buf) ==
    LET amt == Len(buf)
        img0 == d.bytes
        img1 == IF ofst + amt > sz /\ ofst > sz
                THEN write_bytes(img0, sz, ofst - sz) ELSE img0
        img2 == IF ofst + amt > sz THEN set_len(img1, ofst + amt) ELSE img1
    IN [d EXCEPT !.bytes = copy_nonoverlapping(img2, ofst, buf)]

\* The body of c_write on the HookedFile f whose MemFile is d; unique is
\* Rc::get_mut(&mut file.data).is_some().  [rc, data]: the code returned
\* and the MemFile after the call.
write_outcome(f, d, unique, ofst, buf) ==
    LET sz == len(d)
        sz_alloc == cap(d)
        amt == Len(buf)
        grow == ofst + amt > sz /\ ofst + amt > sz_alloc
        res == reserve_additional(d, ofst + amt - sz_alloc)
        d1 == IF grow THEN res[2] ELSE d
    IN  IF ~unique THEN [rc |-> "SQLITE_READONLY", data |-> d]
        ELSE IF grow /\ lease_outstanding(f) THEN [rc |-> "SQLITE_FULL", data |-> d]
        ELSE IF grow /\ ~res[1] THEN [rc |-> "SQLITE_FULL", data |-> d]
        ELSE IF grow /\ over_size_max(d1, f) THEN [rc |-> "SQLITE_FULL", data |-> d1]
        \* as_mut_ptr() panics on ReadOnly; catch_unwind turns it into SQLITE_ERROR
        ELSE IF ~writable(d1) THEN [rc |-> catch_unwind("panic"), data |-> d1]
        ELSE [rc |-> "SQLITE_OK", data |-> write_data(d1, sz, ofst, buf)]

\* What a call of c_write can produce.  When reserve_additional left the
\* capacity below ofst + amt, lines 459-464 write outside the allocation and
\* set_len exceeds the capacity.  The behaviour is undefined: the call
\* returns with the bytes written past the allocation, or the process dies
\* in the call.
write_outcomes(f, d, unique, ofst, buf) ==
    LET r == write_outcome(f, d, unique, ofst, buf)
    IN  IF r.rc = "SQLITE_OK" /\ ofst + Len(buf) > cap(r.data)
        THEN {r, [rc |-> "abort", data |-> d]}
        ELSE {r}

\* the call right before this one was a truncate that removed bytes
\* (ret.ofst is its argument, ret.sz the length before it)
truncated == ret.op = "truncate" /\ ret.rc = "SQLITE_OK" /\ ret.ofst < ret.sz

\* xWrite.  ret.prev records a refusal as read-only of the identical call
\* right before this one, when this one is no longer refused that way, and
\* a truncate right before this call that removed bytes.
c_write(ofst, buf) ==
    /\ alive /\ hooked
    /\ ofst + Len(buf) <= MaxLen
    /\ LET b == file.data IN
       \E r \in write_outcomes(file, bufs[b], rc_get_mut(b), ofst, buf) :
          /\ bufs' = [bufs EXCEPT ![b] = r.data]
          /\ ret' = RetPrev("write", r.rc, ofst, buf, len(bufs[b]), 0,
                            IF /\ ret.op = "write" /\ ret.ofst = ofst /\ ret.buf = buf
                               /\ ret.rc = "SQLITE_READONLY"
                               /\ r.rc # "SQLITE_READONLY"
                            THEN ret.rc
                            ELSE IF truncated THEN "truncated" ELSE "none")
    /\ UNCHANGED <<file, snaps, weaks, ext_live, backup, db_name, cache, stmts>>

\* mutant of truncate_outcome: a size above the length extends the file
truncate_extends(d, exclusive, size) ==
    IF exclusive /\ size >= 0
    THEN [rc |-> "SQLITE_OK", data |-> [d EXCEPT !.bytes = set_len(d.bytes, size)]]
    ELSE [rc |-> "SQLITE_FULL", data |-> d]

\* The body of c_truncate; exclusive is HookedFile::get_mut().is_some()
truncate_outcome(d, exclusive, size) ==
    IF exclusive
    THEN \* size.try_into().unwrap() panics on a negative size
         IF size < 0 THEN [rc |-> catch_unwind("panic"), data |-> d]
         ELSE IF size > len(d) THEN [rc |-> "SQLITE_FULL", data |-> d]
         ELSE [rc |-> "SQLITE_OK", data |-> [d EXCEPT !.bytes = set_len(d.bytes, size)]]
    ELSE [rc |-> "SQLITE_FULL", data |-> d]

\* xTruncate
c_truncate(size) ==
    /\ alive /\ hooked
    /\ LET b == file.data
           r == truncate_outcome(bufs[b], get_mut(b), size)
       IN /\ bufs' = [bufs EXCEPT ![b] = r.data]
          /\ ret' = Ret("truncate", r.rc, size, <<>>, len(bufs[b]), 0)
    /\ UNCHANGED <<file, snaps, weaks, ext_live, backup, db_name, cache, stmts>>

\* mutant of size_limit: a limit below the length is adopted as it is
size_limit_unclamped(f, d, arg) == IF arg < 0 THEN f.size_max ELSE arg

\* c_file_control, SQLITE_FCNTL_SIZE_LIMIT: the limit stored and returned
size_limit(f, d, arg) ==
    IF arg < len(d)
    THEN IF arg < 0 THEN f.size_max ELSE len(d)
    ELSE arg

\* mutant: the op code is answered with success
fcntl_unknown_ok == "SQLITE_OK"

\* c_file_control, `_ => ffi::SQLITE_NOTFOUND`
fcntl_unknown == "SQLITE_NOTFOUND"

\* xFileControl
c_file_control(op, arg) ==
    /\ alive /\ hooked
    /\ LET d == bufs[file.data] IN
       CASE op = "SQLITE_FCNTL_VFSNAME" ->
              /\ ret' = Ret("file_control", "SQLITE_OK", arg, <<>>, len(d), len(d))
              /\ file' = file
         [] op = "SQLITE_FCNTL_SIZE_LIMIT" ->
              /\ file' = [file EXCEPT !.size_max = size_limit(file, d, arg)]
              /\ ret' = Ret("size_limit", "SQLITE_OK", arg, <<>>, len(d), size_limit(file, d, arg))
         [] OTHER ->
              /\ ret' = Ret("file_control", fcntl_unknown, arg, <<>>, len(d), 0)
              /\ file' = file
    /\ UNCHANGED <<bufs, snaps, weaks, ext_live, backup, db_name, cache, stmts>>

\* the offsets and the amount of the map calls
FetchOfsts == {0, MaxLen - 1}
FetchAmt == 1

\* the values of the lease counter that are explored: around zero, modulo 2^16
near_zero(n) == n \in {U16 - 1, 0, 1}

\* xFetch; ret.out is the file offset the returned pointer addresses, -1 for null
c_fetch(ofst, amt) ==
    /\ alive /\ hooked
    /\ near_zero((file.memory_mapped + 1) % U16)
    /\ LET d == bufs[file.data] IN
       IF ofst + amt > len(d)
       THEN /\ file' = file
            /\ ret' = Ret("fetch", "SQLITE_OK", ofst, <<>>, len(d), -1)
       ELSE \* memory_mapped += 1 on a u16: panics on overflow where overflow
            \* checks are compiled in, wraps where they are not
            \/ /\ file.memory_mapped + 1 < U16
               /\ file' = [file EXCEPT !.memory_mapped = @ + 1]
               /\ ret' = Ret("fetch", "SQLITE_OK", ofst, <<>>, len(d), 0)
            \/ /\ file.memory_mapped + 1 = U16
               /\ file' = [file EXCEPT !.memory_mapped = 0]
               /\ ret' = Ret("fetch", "SQLITE_OK", ofst, <<>>, len(d), 0)
            \/ /\ file.memory_mapped + 1 = U16
               /\ file' = file
               /\ ret' = Ret("fetch", catch_unwind("panic"), ofst, <<>>, len(d), 0)
    /\ UNCHANGED <<bufs, snaps, weaks, ext_live, backup, db_name, cache, stmts>>

\* xUnfetch
c_unfetch ==
    /\ alive /\ hooked
    /\ near_zero((file.memory_mapped + U16 - 1) % U16)
    /\ \/ /\ file.memory_mapped > 0
          /\ file' = [file EXCEPT !.memory_mapped = @ - 1]
          /\ ret' = Ret("unfetch", "SQLITE_OK", 0, <<>>, 0, 0)
       \/ /\ file.memory_mapped = 0
          /\ file' = [file EXCEPT !.memory_mapped = U16 - 1]
          /\ ret' = Ret("unfetch", "SQLITE_OK", 0, <<>>, 0, 0)
       \/ /\ file.memory_mapped = 0
          /\ file' = file
          /\ ret' = Ret("unfetch", catch_unwind("panic"), 0, <<>>, 0, 0)
    /\ UNCHANGED <<bufs, snaps, weaks, ext_live, backup, db_name, cache, stmts>>

\* the caller's buffer of xRead before the call: amt bytes never written
host_buf(amt) == [i \in 1..amt |-> UNINIT]

\* The body of c_read: [rc, buf], the code returned and the caller's buffer
\* after the call
read_outcome(d, ofst, amt) ==
    LET L == len(d)
        zeroed == write_bytes(host_buf(amt), 0, amt)
    IN  \* amt.try_into().unwrap() and ofst.try_into().unwrap() panic
        IF amt < 0 \/ ofst < 0
        THEN [rc |-> catch_unwind("panic"), buf |-> host_buf(amt)]
        ELSE IF ofst + amt > L
        THEN [rc |-> "SQLITE_IOERR_SHORT_READ",
              buf |-> IF ofst < L
                      THEN copy_nonoverlapping(zeroed, 0, SubSeq(d.bytes, ofst + 1, L))
                      ELSE zeroed]
        ELSE [rc |-> "SQLITE_OK",
              buf |-> copy_nonoverlapping(host_buf(amt), 0,
                                          SubSeq(d.bytes, ofst + 1, ofst + amt))]

\* the read copies bytes that lie outside the allocation of d
reads_past_allocation(d, ofst, amt) ==
    /\ ofst >= 0 /\ amt > 0 /\ ofst < len(d)
    /\ (IF ofst + amt > len(d) THEN len(d) ELSE ofst + amt) > cap(d)

\* What a call of c_read can produce.  Once a write has left the length
\* above the capacity, a read of the bytes beyond the capacity reads outside
\* the allocation: it returns what it finds there or the process dies.
read_outcomes(d, ofst, amt) ==
    LET r == read_outcome(d, ofst, amt)
    IN  IF reads_past_allocation(d, ofst, amt)
        THEN {r, [rc |-> "abort", buf |-> host_buf(amt)]}
        ELSE {r}

\* the MemFile borrows memory of the caller: ReadOnly(&'a [u8]),
\* Resizable(&'a mut Vec<u8>)
borrowed(d) == d.mode \in {"ReadOnly", "Resizable"}

\* the hooked file refers to memory the caller has released
dangling == hooked /\ borrowed(bufs[file.data]) /\ ~ext_live

\* What a call of c_read can produce besides read_outcomes when the bytes
\* it copies lie in memory the caller has released.  The read is undefined:
\* it returns the old bytes (read_outcomes), other bytes, or the process
\* dies in the call.
released_outcomes(d, ofst, amt) ==
    IF dangling /\ ofst >= 0 /\ amt > 0 /\ ofst < len(d)
    THEN {read_outcome([d EXCEPT !.bytes = [i \in 1..len(d) |-> UNINIT]], ofst, amt),
          [rc |-> "abort", buf |-> host_buf(amt)]}
    ELSE {}

\* xRead; ret.buf is the caller's buffer after the call, ret.out is amt
c_read(ofst, amt) ==
    /\ alive /\ hooked
    /\ LET d == bufs[file.data] IN
       \E r \in read_outcomes(d, ofst, amt) \cup released_outcomes(d, ofst, amt) :
          ret' = Ret("read", r.rc, ofst, r.buf, len(d), amt)
    /\ UNCHANGED <<bufs, file, snaps, weaks, ext_live, backup, db_name, cache, stmts>>

\* mutant of sync_result: the sync reports an I/O error
sync_fails == "SQLITE_IOERR"

\* c_sync: `ffi::SQLITE_OK`
sync_result == "SQLITE_OK"

\* xSync
c_sync ==
    /\ alive /\ hooked
    /\ ret' = Ret("sync", sync_result, 0, <<>>, len(bufs[file.data]), 0)
    /\ UNCHANGED <<bufs, file, snaps, weaks, ext_live, backup, db_name, cache, stmts>>

\* xFileSize; ret.out is *size; when the call right before it was a
\* successful truncate, ret.prev is "truncate" and ret.ofst is its argument
c_size ==
    /\ alive /\ hooked
    /\ LET d == bufs[file.data] IN
       LET after_truncate == ret.op = "truncate" /\ ret.rc = "SQLITE_OK" IN
       ret' = RetPrev("size", catch_unwind("SQLITE_OK"),
                      IF after_truncate THEN ret.ofst ELSE 0, <<>>, len(d), len(d),
                      IF after_truncate THEN "truncate" ELSE "none")
    /\ UNCHANGED <<bufs, file, snaps, weaks, ext_live, backup, db_name, cache, stmts>>

\* SQLITE_IOCAP_ATOMIC | SQLITE_IOCAP_POWERSAFE_OVERWRITE |
\* SQLITE_IOCAP_SAFE_APPEND | SQLITE_IOCAP_SEQUENTIAL
IOCAP_FLAGS == 1 + 4096 + 512 + 1024

\* xDeviceCharacteristics; ret.out is the flags
c_device_characteristics ==
    /\ alive /\ hooked
    /\ ret' = Ret("device_characteristics", "flags", 0, <<>>, len(bufs[file.data]), IOCAP_FLAGS)
    /\ UNCHANGED <<bufs, file, snaps, weaks, ext_live, backup, db_name, cache, stmts>>

SQLITE_LOCK_SHARED == 1

\* SQLITE_LOCK_NONE .. SQLITE_LOCK_EXCLUSIVE
LockLevels == 0..4

\* mutant of lock_outcome: every level above shared is refused
lock_refused_above_shared(d, lock) ==
    IF lock > SQLITE_LOCK_SHARED THEN "SQLITE_READONLY" ELSE "SQLITE_OK"

\* The body of c_lock
lock_outcome(d, lock) ==
    IF lock > SQLITE_LOCK_SHARED /\ ~writable(d) THEN "SQLITE_READONLY" ELSE "SQLITE_OK"

\* xLock and xUnlock (both slots hold c_lock); op is "lock" or "unlock",
\* ret.ofst is the level
c_lock(op, lock) ==
    /\ alive /\ hooked
    /\ LET d == bufs[file.data] IN
       ret' = Ret(op, lock_outcome(d, lock), lock, <<>>, len(d), 0)
    /\ UNCHANGED <<bufs, file, snaps, weaks, ext_live, backup, db_name, cache, stmts>>

(* ---------------------------------------------------------------------- *)
(* Serialize                                                               *)
(* ---------------------------------------------------------------------- *)
\* What the hooked branch of serialize can produce.  The copy reads len
\* bytes from the start of the storage; with the length above the capacity
\* it reads outside the allocation, which is undefined: the copy is made or
\* the process dies in the call.
serialize_outcomes(d) ==
    LET r == [rc |-> "Ok", buf |-> to_vec(as_slice(d))]
    IN  IF len(d) > cap(d) THEN {r, [rc |-> "abort", buf |-> <<>>]} ELSE {r}

\* the images of a database of at least one page that is not hooked
SrcImages == UNION {[1..n -> {0, 1}] : n \in 1..MaxLen}

\* the HookedFile backup_to_vec writes over the file of its temporary database
TempFile == [methods |-> "hooked", data |-> 0, size_max |-> 0, memory_mapped |-> 0]

\* what Backup::step can answer: a StepResult, or an error of its own
StepResults == {"More", "Done", "Busy", "Locked", "Error"}

\* Backup::step(num_pages): the pages one step copies when it answers res.
\* Busy, Locked and an error copy nothing.
pages_stepped(src, copied, res) ==
    IF res \in {"Busy", "Locked", "Error"} THEN 0 ELSE Min(StepPages, Len(src) - copied)

\* Backup::step(num_pages): it answers Done when the last page has been
\* copied, More while pages are left, Busy or Locked when it could not get
\* its locks
step_answers(src, copied, res) ==
    \/ res \in {"Busy", "Locked", "Error"}
    \/ res = "Done" /\ copied + pages_stepped(src, copied, res) = Len(src)
    \/ res = "More" /\ copied + pages_stepped(src, copied, res) < Len(src)

\* The pages [from, from + n) of src written through xWrite of the temporary
\* file, whose MemFile is Resizable(vec): [rc, data]
RECURSIVE copy_pages(_, _, _, _)
copy_pages(vec, src, from, n) ==
    IF n = 0 THEN [rc |-> "SQLITE_OK", data |-> vec]
    ELSE LET w == write_outcome(TempFile, vec, TRUE, from, <<src[from + 1]>>)
         IN  IF w.rc # "SQLITE_OK" THEN w
             ELSE copy_pages(w.data, src, from + 1, n - 1)

\* mutant of loop_continues: a step that could not get its locks is retried
loop_retries(r) == r \in {"More", "Busy", "Locked"}

\* backup_to_vec, line 144: while r == More
loop_continues(r) == r = "More"

\* backup_to_vec, lines 147-152: the result of the loop as serialize returns it
backup_result(r) ==
    CASE r = "Done" -> "Ok"
      [] r = "Busy" -> "SQLITE_BUSY"
      [] r = "Locked" -> "SQLITE_LOCKED"
      [] OTHER -> "panic"

\* Connection::serialize(db_name).  On a hooked file it returns a copy of the
\* bytes.  On a file that is not hooked, whose image is src, it queries the
\* size, allocates the Vec and enters the loop of backup_to_vec, which
\* backup_step continues.
serialize(schema, src) ==
    /\ alive /\ backup.pc = "idle"
    /\ db_name' = schema
    /\ IF ~schema_exists(schema)
       THEN \* file_ptr is None: Ok(None)
            /\ ret' = Ret("serialize", "None", 0, <<>>, 0, 0)
            /\ backup' = backup
       ELSE IF hooked
       THEN /\ \E r \in serialize_outcomes(bufs[file.data]) :
                  ret' = RetPrev("serialize", r.rc, 0, r.buf, len(bufs[file.data]), 0,
                                 IF ret.op = "deserialize" /\ ret.prev = "serialize"
                                 THEN "round_trip" ELSE "none")
            /\ backup' = backup
       ELSE /\ backup' = [pc |-> "stepping", r |-> "More", src |-> src,
                          db_size |-> Len(src), copied |-> 0,
                          vec |-> MemFile("Resizable", <<>>, Len(src))]
            /\ ret' = Ret("serialize", "stepping", 0, <<>>, Len(src), 0)
    /\ UNCHANGED <<bufs, file, snaps, weaks, ext_live, cache, stmts>>

\* One pass of the loop of backup_to_vec with the answer res of
\* Backup::step, and, when the loop ends, the return of serialize: the
\* error of a failed write, the result of the loop, or a panic of
\* assert_eq!(vec.len(), db_size).
backup_step(res) ==
    /\ alive /\ backup.pc = "stepping"
    /\ step_answers(backup.src, backup.copied, res)
    /\ LET n == pages_stepped(backup.src, backup.copied, res)
           w == copy_pages(backup.vec, backup.src, backup.copied, n)
           stepped == [backup EXCEPT !.r = res, !.copied = @ + n, !.vec = w.data]
           vec == released(w.data)
       IN  IF w.rc # "SQLITE_OK" \/ res = "Error"
           THEN \* r = backup.step(100)?
                /\ backup' = [stepped EXCEPT !.pc = "idle", !.r = "Error", !.vec = vec]
                /\ ret' = Ret("serialize", IF res = "Error" THEN "Err" ELSE w.rc,
                              0, <<>>, Len(backup.src), 0)
           ELSE IF loop_continues(res)
           THEN /\ backup' = stepped
                /\ ret' = ret
           ELSE /\ backup' = [stepped EXCEPT !.pc = "idle", !.vec = vec]
                /\ ret' = Ret("serialize",
                              IF res = "Done" /\ len(vec) # backup.db_size
                              THEN "panic" ELSE backup_result(res),
                              0, IF res = "Done" THEN vec.bytes ELSE <<>>,
                              Len(backup.src), 0)
    /\ UNCHANGED <<bufs, file, snaps, weaks, ext_live, db_name, cache, stmts>>

\* Another connection commits to the file of the source schema after
\* serialize has queried its size and before the first step of the backup:
\* serialize holds no transaction between the two, and the backup copies
\* the image it finds.
source_changes(src) ==
    /\ alive /\ backup.pc = "stepping"
    /\ backup.copied = 0 /\ src # backup.src
    /\ backup' = [backup EXCEPT !.src = src]
    /\ UNCHANGED <<bufs, file, snaps, weaks, ret, ext_live, db_name, cache, stmts>>

(* ---------------------------------------------------------------------- *)
(* Statement cache                                                         *)
(* ---------------------------------------------------------------------- *)
\* the texts callers prepare, and a text the engine cannot prepare
Sqls == {"a", "b", "c"}
BadSql == "syntax error"

\* the capacities callers ask for
Capacities == {0, 1, 2, 3}

\* usize::next_power_of_two for the sizes in use
next_power_of_two(n) == CHOOSE p \in {1, 2, 4, 8} : p >= n /\ \A q \in {1, 2, 4, 8} : q >= n => p <= q

\* VecDeque::with_capacity(n): the capacities the standard library gives,
\* exactly n, or a ring of max(n + 1, 2).next_power_of_two() slots with one
\* kept free
with_capacity(n) == {n, next_power_of_two(Max(n + 1, 2)) - 1}

\* a prepared Statement: its text, sqlite3_stmt_busy, and the value of the
\* clock when it was last returned to the cache (0: never)
Statement(sql) == [sql |-> sql, busy |-> FALSE, t |-> 0]

\* cache.iter().rposition(|entry| entry.eq(sql)): the place of the match
\* nearest the back, 0 for None
rposition(entries, sql) ==
    LET hits == {i \in 1..Len(entries) : entries[i].sql = sql}
    IN  IF hits = {} THEN 0 ELSE CHOOSE i \in hits : \A j \in hits : j <= i

\* VecDeque::swap_remove_front(index): the entry is swapped with the front
\* and the front is popped
swap_remove_front(entries, index) ==
    IF index = 1 THEN Tail(entries)
    ELSE Tail([entries EXCEPT ![index] = entries[1]])

\* VecDeque::pop_back
pop_back(entries) == SubSeq(entries, 1, Len(entries) - 1)

\* VecDeque::push_front
push_front(entries, stmt) == <<stmt>> \o entries

\* the capacity after push_front: a full ring is re-allocated
grown(capacity, length) ==
    IF length = capacity THEN Max(4, 2 * capacity) ELSE capacity

\* StatementCache::new(conn, capacity); a cache is replaced only while no
\* CachedStatement borrows it
cache_new(capacity) ==
    /\ stmts = <<>>
    /\ \E c \in with_capacity(capacity) :
          cache' = [entries |-> <<>>, capacity |-> c, clock |-> 0]
    /\ ret' = Ret("cache_new", "Ok", capacity, <<>>, 0, 0)
    /\ UNCHANGED <<bufs, file, snaps, weaks, ext_live, backup, db_name, stmts>>

\* StatementCache::get(sql); ret.ofst is the place of the match, ret.prev
\* the text
get(sql) ==
    /\ Len(stmts) < MaxStmts
    /\ LET index == rposition(cache.entries, sql) IN
       IF index # 0
       THEN /\ stmts' = Append(stmts, cache.entries[index])
            /\ cache' = [cache EXCEPT !.entries = swap_remove_front(@, index)]
            /\ ret' = RetPrev("get", "Ok", index, <<>>, Len(cache.entries), 0, sql)
       ELSE IF sql # BadSql
       THEN \* self.conn.prepare(sql)
            /\ stmts' = Append(stmts, Statement(sql))
            /\ cache' = cache
            /\ ret' = RetPrev("get", "Ok", 0, <<>>, Len(cache.entries), 0, sql)
       ELSE /\ UNCHANGED <<cache, stmts>>
            /\ ret' = RetPrev("get", "Err", 0, <<>>, Len(cache.entries), 0, sql)
    /\ UNCHANGED <<bufs, file, snaps, weaks, ext_live, backup, db_name>>

\* the caller steps the CachedStatement i without running it to completion
\* (busy), or resets it
stmt_step(i, busy) ==
    /\ i \in 1..Len(stmts) /\ stmts[i].busy # busy
    /\ stmts' = [stmts EXCEPT ![i].busy = busy]
    /\ ret' = Ret("stmt_step", "Ok", i, <<>>, Len(cache.entries), 0)
    /\ UNCHANGED <<bufs, file, snaps, weaks, ext_live, backup, db_name, cache>>

\* the sequence without its element i
without(seq, i) == SubSeq(seq, 1, i - 1) \o SubSeq(seq, i + 1, Len(seq))

\* mutant of cache_stmt: a busy statement is cached as well
cache_stmt_busy(c, stmt) ==
    LET kept == IF c.capacity = Len(c.entries) THEN pop_back(c.entries) ELSE c.entries
    IN  [entries |-> push_front(kept, [stmt EXCEPT !.t = c.clock + 1]),
         capacity |-> grown(c.capacity, Len(kept)),
         clock |-> c.clock + 1]

\* StatementCache::cache_stmt(stmt): the cache after the call
cache_stmt(c, stmt) ==
    IF stmt.busy THEN c
    ELSE LET kept == IF c.capacity = Len(c.entries) THEN pop_back(c.entries)
                     ELSE c.entries
         IN  [entries |-> push_front(kept, [stmt EXCEPT !.t = c.clock + 1]),
              capacity |-> grown(c.capacity, Len(kept)),
              clock |-> c.clock + 1]

\* Drop for CachedStatement i; ret.out is 1 when the statement was busy
drop_cached(i) ==
    /\ i \in 1..Len(stmts)
    /\ cache.clock < MaxClock
    /\ cache' = cache_stmt(cache, stmts[i])
    /\ stmts' = without(stmts, i)
    /\ ret' = RetPrev("drop_cached", "Ok", i, <<>>, Len(cache.entries),
                      IF stmts[i].busy THEN 1 ELSE 0, stmts[i].sql)
    /\ UNCHANGED <<bufs, file, snaps, weaks, ext_live, backup, db_name>>

\* CachedStatement::discard on i: stmt = None, then the drop finds nothing
discard(i) ==
    /\ i \in 1..Len(stmts)
    /\ stmts' = without(stmts, i)
    /\ ret' = RetPrev("discard", "Ok", i, <<>>, Len(cache.entries), 0, stmts[i].sql)
    /\ UNCHANGED <<bufs, file, snaps, weaks, ext_live, backup, db_name, cache>>

\* StatementCache::clear
clear ==
    /\ cache' = [cache EXCEPT !.entries = <<>>]
    /\ ret' = Ret("clear", "Ok", 0, <<>>, Len(cache.entries), 0)
    /\ UNCHANGED <<bufs, file, snaps, weaks, ext_live, backup, db_name, stmts>>

(* ---------------------------------------------------------------------- *)
(* Specification                                                           *)
(* ---------------------------------------------------------------------- *)
Next ==
    \/ \E bytes \in InitDatas, spare \in Spares, sm \in SizeLimits :
          deserialize(Main, bytes, spare, sm)
    \/ \E bytes \in InitDatas, sm \in SizeLimits :
          deserialize_read_only(Main, bytes, sm)
    \/ \E bytes \in InitDatas, spare \in Spares, sm \in SizeLimits :
          deserialize_resizable(Main, bytes, spare, sm)
    \/ serialize_rc
    \/ \E b \in BufIds : drop_rc(b)
    \/ \E b \in BufIds : downgrade(b)
    \/ \E b \in BufIds : drop_weak(b)
    \/ \E ofst \in 0..(MaxLen - 1), buf \in Payloads : c_write(ofst, buf)
    \/ \E size \in TruncateSizes : c_truncate(size)
    \/ \E arg \in {-1} \cup SizeLimits : c_file_control("SQLITE_FCNTL_SIZE_LIMIT", arg)
    \/ \E op \in FcntlOps \ {"SQLITE_FCNTL_SIZE_LIMIT"} : c_file_control(op, 0)
    \/ \E ofst \in FetchOfsts : c_fetch(ofst, FetchAmt)
    \/ c_unfetch

Spec == Init /\ [][Next]_vars

\* arguments of xRead
ReadOfsts == {-1, 0, 1, MaxLen}
ReadAmts == {-1, 1, 2}

\* The callback table as the engine drives it on one attachment, with the
\* snapshot handles of serialize_rc
NextCallbacks ==
    \/ \E bytes \in InitDatas, spare \in Spares, sm \in SizeLimits :
          deserialize(Main, bytes, spare, sm)
    \/ \E bytes \in InitDatas, sm \in SizeLimits :
          deserialize_read_only(Main, bytes, sm)
    \/ \E bytes \in InitDatas, spare \in Spares, sm \in SizeLimits :
          deserialize_resizable(Main, bytes, spare, sm)
    \/ serialize_rc
    \/ \E b \in BufIds : drop_rc(b)
    \/ \E ofst \in 0..(MaxLen - 1), buf \in Payloads : c_write(ofst, buf)
    \/ \E size \in TruncateSizes : c_truncate(size)
    \/ \E ofst \in ReadOfsts, amt \in ReadAmts : c_read(ofst, amt)
    \/ c_sync
    \/ c_size
    \/ \E op \in {"lock", "unlock"}, lock \in LockLevels : c_lock(op, lock)
    \/ \E ofst \in FetchOfsts : c_fetch(ofst, FetchAmt)
    \/ c_unfetch

SpecCallbacks == Init /\ [][NextCallbacks]_vars

\* The entry points the engine and the caller have on one attachment
NextEntryPoints ==
    \/ \E bytes \in InitDatas, spare \in Spares, sm \in SizeLimits :
          deserialize(Main, bytes, spare, sm)
    \/ \E bytes \in InitDatas, sm \in SizeLimits :
          deserialize_read_only(Main, bytes, sm)
    \/ \E ofst \in 0..(MaxLen - 1), buf \in Payloads : c_write(ofst, buf)
    \/ \E size \in TruncateSizes : c_truncate(size)
    \/ \E ofst \in ReadOfsts, amt \in ReadAmts : c_read(ofst, amt)
    \/ c_sync
    \/ c_size
    \/ \E op \in {"lock", "unlock"}, lock \in LockLevels : c_lock(op, lock)
    \/ \E op \in FcntlOps, arg \in {-1, 0} : c_file_control(op, arg)
    \/ c_device_characteristics
    \/ \E ofst \in FetchOfsts : c_fetch(ofst, FetchAmt)
    \/ c_unfetch
    \/ hooked /\ serialize(Main, <<>>)
    \/ serialize_rc
    \/ \E b \in BufIds : drop_rc(b)

SpecEntryPoints == Init /\ [][NextEntryPoints]_vars

\* The bridge on one schema slot: attach, feed a serialization back, copy,
\* snapshot, detach, drop the connection, with the writes and truncates of
\* the engine in between.  The copy of a file that is not hooked is
\* explored in SpecBackup.
NextBridge ==
    \/ \E bytes \in InitDatas, spare \in Spares, sm \in SizeLimits :
          deserialize(Main, bytes, spare, sm)
    \/ /\ ret.op = "serialize" /\ ret.rc = "Ok"
       /\ \E spare \in Spares, sm \in SizeLimits : deserialize(Main, ret.buf, spare, sm)
    \/ \E bytes \in InitDatas, sm \in SizeLimits :
          deserialize_read_only(Main, bytes, sm)
    \/ \E bytes \in InitDatas, spare \in Spares, sm \in SizeLimits :
          deserialize_resizable(Main, bytes, spare, sm)
    \/ hooked /\ serialize(Main, <<>>)
    \/ serialize_rc
    \/ \E b \in BufIds : drop_rc(b)
    \/ \E op \in {"detach", "drop_connection"} : c_close(op)
    \/ \E ofst \in 0..(MaxLen - 1), buf \in Payloads : c_write(ofst, buf)
    \/ \E size \in TruncateSizes : c_truncate(size)
    \/ c_size

SpecBridge == Init /\ [][NextBridge]_vars

\* The caller releases the slice or the Vec the hooked file was built from.
\* The type of BorrowingConnection<'a> allows it while the file is
\* attached: 'a is covariant (PhantomData<&'a [u8]>) and
\* deserialize_read_only takes &self, so each call picks an 'a as short as
\* its slice; the struct has no destructor that holds 'a, so a Vec declared
\* after the connection is dropped before it.  ret.out is 1 for a Vec.
drop_external ==
    /\ alive /\ hooked /\ ext_live
    /\ borrowed(bufs[file.data])
    /\ snaps[file.data] = 0
    /\ ext_live' = FALSE
    /\ ret' = Ret("drop_external", "Ok", 0, <<>>, len(bufs[file.data]),
                  IF bufs[file.data].mode = "Resizable" THEN 1 ELSE 0)
    /\ UNCHANGED <<bufs, file, snaps, weaks, backup, db_name, cache, stmts>>

\* the borrow checker lets the caller use the connection: after a Vec
\* attached through &mut self is gone, only the drop of the connection is left
usable == ~(dangling /\ bufs[file.data].mode = "Resizable")

\* A borrowing session: attachments built from the caller's memory, the
\* release of that memory, and the entry points the engine calls
NextBorrow ==
    \/ /\ usable
       /\ \E bytes \in InitDatas, sm \in SizeLimits : deserialize_read_only(Main, bytes, sm)
    \/ /\ usable
       /\ \E bytes \in InitDatas, spare \in Spares, sm \in SizeLimits :
             deserialize_resizable(Main, bytes, spare, sm)
    \/ drop_external
    \/ usable /\ \E ofst \in ReadOfsts, amt \in ReadAmts : c_read(ofst, amt)
    \/ usable /\ \E ofst \in 0..(MaxLen - 1), buf \in Payloads : c_write(ofst, buf)
    \/ usable /\ c_size
    \/ usable /\ \E lock \in LockLevels : c_lock("lock", lock)
    \/ usable /\ c_close("detach")
    \/ c_close("drop_connection")

SpecBorrow == Init /\ [][NextBorrow]_vars

\* The bridge called with the name of Main and with a name the connection
\* has no schema for.  The copy of a file that is not hooked is explored in
\* SpecBackup.
NextSchemas ==
    \/ \E schema \in Schemas, bytes \in InitDatas, spare \in Spares, sm \in SizeLimits :
          deserialize(schema, bytes, spare, sm)
    \/ \E schema \in Schemas, bytes \in InitDatas, sm \in SizeLimits :
          deserialize_read_only(schema, bytes, sm)
    \/ \E schema \in Schemas, bytes \in InitDatas, spare \in Spares, sm \in SizeLimits :
          deserialize_resizable(schema, bytes, spare, sm)
    \/ \E schema \in Schemas : hooked /\ serialize(schema, <<>>)
    \/ serialize_rc
    \/ \E b \in BufIds : drop_rc(b)
    \/ \E ofst \in 0..(MaxLen - 1), buf \in Payloads : c_write(ofst, buf)
    \/ \E op \in {"detach", "drop_connection"} : c_close(op)

SpecSchemas == Init /\ [][NextSchemas]_vars

\* A StatementCache and the CachedStatements taken from it
NextCache ==
    \/ \E capacity \in Capacities : cache_new(capacity)
    \/ \E sql \in Sqls \cup {BadSql} : get(sql)
    \/ \E i \in 1..MaxStmts, busy \in BOOLEAN : stmt_step(i, busy)
    \/ \E i \in 1..MaxStmts : drop_cached(i)
    \/ \E i \in 1..MaxStmts : discard(i)
    \/ clear

SpecCache == Init /\ [][NextCache]_vars

\* The copy of a file that is not hooked: serialize and the loop of
\* backup_to_vec
NextBackup ==
    \/ \E src \in SrcImages : serialize(Main, src)
    \/ \E res \in StepResults : backup_step(res)

SpecBackup == Init /\ [][NextBackup]_vars

\* The copy of a file that is not hooked and that another connection writes
NextBackupShared ==
    \/ \E src \in SrcImages : serialize(Main, src)
    \/ \E src \in SrcImages : source_changes(src)
    \/ \E res \in StepResults : backup_step(res)

SpecBackupShared == Init /\ [][NextBackupShared]_vars

(* ---------------------------------------------------------------------- *)
(* Claims                                                                  *)
(* ---------------------------------------------------------------------- *)
\* the MemFile of the hooked slot
data == bufs[file.data]

\* The step is a call of c_write (its arguments are ret'.ofst and ret'.buf):
\* every entry point sets ret.op, and the steps that leave ret alone
\* (drop_rc, downgrade, drop_weak) change snaps or weaks.
write_step == ret'.op = "write" /\ snaps' = snaps /\ weaks' = weaks

\* The step is a call of c_truncate (its argument is ret'.ofst)
truncate_step == ret'.op = "truncate" /\ snaps' = snaps /\ weaks' = weaks

\* a write of amt bytes at ofst extends the file d beyond its capacity
needs_capacity(d, ofst, amt) == ofst + amt > len(d) /\ ofst + amt > cap(d)

\* a write of amt bytes at ofst ends within the capacity of d
fits_capacity(d, ofst, amt) == ofst + amt <= cap(d)

AttachOps == {"deserialize", "deserialize_read_only", "deserialize_resizable"}

\* C2: in every step that is not an attach, the bytes (and so the length)
\* of a buffer change only if its reference count was exactly one and its
\* mode was not ReadOnly; a buffer that a caller holds a handle of, and a
\* ReadOnly buffer, keep their bytes.
C2_ChangeOnlyWhenExclusive ==
    [][\A b \in BufIds :
         (bufs[b] # NoBuf /\ bufs'[b] # NoBuf /\ ret'.op \notin AttachOps) =>
            /\ bufs'[b].bytes # bufs[b].bytes =>
                  strong_count(b) = 1 /\ bufs[b].mode # "ReadOnly"
            /\ (snaps[b] > 0 \/ bufs[b].mode = "ReadOnly") =>
                  bufs'[b].bytes = bufs[b].bytes]_vars

\* C2 witness: a truncate to a shorter length was called on a buffer that a
\* caller holds a handle of, and the buffer still has its length
C2_Witness ==
    /\ hooked /\ snaps[file.data] > 0
    /\ ret.op = "truncate" /\ ret.ofst >= 0 /\ ret.ofst < ret.sz
    /\ len(data) = ret.sz

\* C3: a ReadOnly attachment rejects every write with the ReadOnly code
C3_ReadOnlyRejectsWrites ==
    [][(write_step /\ data.mode = "ReadOnly") => ret'.rc = "SQLITE_READONLY"]_vars

\* C4: while the reference count exceeds one, or the buffer is ReadOnly,
\* every truncate fails with the read-only code and leaves the length
C4_TruncateReadOnlyCode ==
    [][(truncate_step /\ (strong_count(file.data) > 1 \/ data.mode = "ReadOnly")) =>
          /\ ret'.rc = "SQLITE_READONLY"
          /\ len(bufs'[file.data]) = len(data)]_vars

\* C5: the length of every buffer is at most its capacity
C5_LenAtMostCap ==
    \A b \in BufIds : bufs[b] # NoBuf => len(bufs[b]) <= cap(bufs[b])

\* C6: with size_max = N, every write on an exclusively held writable
\* buffer whose resulting length exceeds N fails with Full, whatever the
\* capacity
C6_SizeLimitEnforced ==
    [][( /\ write_step
         /\ writable(data) /\ rc_get_mut(file.data)
         /\ ret'.ofst + Len(ret'.buf) > file.size_max ) =>
          ret'.rc = "SQLITE_FULL"]_vars

\* C7: after every write the capacity is unchanged or at most size_max
C7_CapWithinSizeMax ==
    [][write_step =>
          \/ cap(bufs'[file.data]) = cap(data)
          \/ cap(bufs'[file.data]) <= file.size_max]_vars

\* C8: a write that returns Full mutates nothing
C8_FullMutatesNothing ==
    [][(write_step /\ ret'.rc = "SQLITE_FULL") => bufs' = bufs /\ file' = file]_vars

\* C9 as stated: while a lease is outstanding no write changes the
\* capacity; a write that needs more capacity than the buffer has fails with
\* Full and leaves the buffer unchanged; a write that fits the capacity is
\* not refused for the lease.
C9_LeaseBlocksGrowthAsStated ==
    [][(write_step /\ file.memory_mapped > 0) =>
          /\ cap(bufs'[file.data]) = cap(data)
          /\ ~fits_capacity(data, ret'.ofst, Len(ret'.buf)) =>
                ret'.rc = "SQLITE_FULL" /\ bufs' = bufs
          /\ fits_capacity(data, ret'.ofst, Len(ret'.buf)) =>
                ret'.rc # "SQLITE_FULL"]_vars

\* C9 amended: while a lease is outstanding no write changes the capacity;
\* a write that extends the file beyond its capacity leaves the buffer
\* unchanged and fails, with Full when the file's handle is the only one and
\* with ReadOnly when another strong or weak handle exists; a write that
\* ends within the capacity of an exclusively held writable buffer succeeds.
C9_LeaseBlocksGrowth ==
    [][(write_step /\ file.memory_mapped > 0) =>
          /\ cap(bufs'[file.data]) = cap(data)
          /\ needs_capacity(data, ret'.ofst, Len(ret'.buf)) =>
                /\ bufs' = bufs
                /\ ret'.rc = IF rc_get_mut(file.data)
                             THEN "SQLITE_FULL" ELSE "SQLITE_READONLY"
          /\ ( /\ fits_capacity(data, ret'.ofst, Len(ret'.buf))
               /\ rc_get_mut(file.data) /\ writable(data) ) =>
                ret'.rc = "SQLITE_OK"]_vars

\* C9 witness: with a lease outstanding, a write beyond the capacity of an
\* exclusively held writable buffer, within size_max, has failed with Full
C9_Witness ==
    /\ hooked /\ file.memory_mapped > 0
    /\ writable(data) /\ rc_get_mut(file.data)
    /\ ret.op = "write" /\ ret.rc = "SQLITE_FULL"
    /\ ret.ofst + Len(ret.buf) > cap(data)
    /\ file.size_max >= ret.ofst + Len(ret.buf)

\* C10: on an exclusively held writable buffer of length L, a successful
\* write of amt bytes at O > L yields length O + amt, zeros in [L, O), the
\* payload in [O, O + amt) and the old bytes in [0, L)
C10_GrowthZeroFill ==
    [][( /\ write_step
         /\ writable(data) /\ rc_get_mut(file.data)
         /\ ret'.ofst > len(data)
         /\ ret'.rc = "SQLITE_OK" ) =>
          LET new == bufs'[file.data].bytes IN
          /\ Len(new) = ret'.ofst + Len(ret'.buf)
          /\ \A i \in 1..Len(new) :
                new[i] = IF i <= len(data) THEN data.bytes[i]
                         ELSE IF i <= ret'.ofst THEN 0
                         ELSE ret'.buf[i - ret'.ofst]]_vars

\* C10 witness: a write beyond the end of a non-empty file has succeeded
\* within the capacity it reserved
C10_Witness ==
    /\ hooked
    /\ ret.op = "write" /\ ret.rc = "SQLITE_OK"
    /\ ret.sz >= 1 /\ ret.ofst > ret.sz
    /\ len(data) = ret.ofst + Len(ret.buf)
    /\ len(data) <= cap(data)

\* The step is a call of c_size
size_step == ret'.op = "size" /\ snaps' = snaps /\ weaks' = weaks

\* The step is a call of c_read (ret'.ofst and ret'.out are its arguments)
read_step == ret'.op = "read" /\ snaps' = snaps /\ weaks' = weaks

\* C11: on an exclusively held writable buffer of length L, truncate(n) with
\* n > L fails with Full and leaves the buffer; truncate(n) with 0 <= n <= L
\* succeeds, leaves length n and the bytes [0, n), and the file-size call
\* right after it returns n.
C11_TruncateMonotone ==
    [][/\ (truncate_step /\ get_mut(file.data) /\ ret'.ofst >= 0) =>
            IF ret'.ofst > len(data)
            THEN ret'.rc = "SQLITE_FULL" /\ bufs' = bufs
            ELSE /\ ret'.rc = "SQLITE_OK"
                 /\ bufs'[file.data].bytes = SubSeq(data.bytes, 1, ret'.ofst)
       /\ (size_step /\ ret.op = "truncate" /\ ret.rc = "SQLITE_OK") =>
            ret'.rc = "SQLITE_OK" /\ ret'.out = ret.ofst]_vars

\* C11 witness: a truncate to a shorter, non-zero length has succeeded on an
\* exclusively held buffer and the file-size call after it has returned
C11_Witness ==
    /\ hooked /\ get_mut(file.data)
    /\ ret.op = "size" /\ ret.prev = "truncate"
    /\ ret.out >= 1 /\ ret.out = len(data) /\ ret.out = ret.ofst

\* C12: for every buffer of length L, a read of amt >= 0 bytes at O >= 0
\* with O + amt > L returns the short-read code and an output whose first
\* max(0, L - O) bytes are the stored bytes from O and whose other bytes are
\* zero; with O + amt <= L it returns success and the stored bytes
\* [O, O + amt).  The buffer is unchanged.
C12_ReadPastEnd ==
    [][(read_step /\ ret'.ofst >= 0 /\ ret'.out >= 0) =>
          LET L == len(data)
              O == ret'.ofst
              amt == ret'.out
          IN  /\ bufs' = bufs
              /\ Len(ret'.buf) = amt
              /\ ret'.rc = IF O + amt > L THEN "SQLITE_IOERR_SHORT_READ" ELSE "SQLITE_OK"
              /\ \A i \in 1..amt :
                    ret'.buf[i] = IF O + i <= L THEN data.bytes[O + i] ELSE 0]_vars

\* The step is a call of xLock or xUnlock (ret'.ofst is the level)
lock_step == ret'.op \in {"lock", "unlock"} /\ snaps' = snaps /\ weaks' = weaks

\* The step is a call of op on the hooked file
call_step(op) == hooked /\ ret'.op = op /\ snaps' = snaps /\ weaks' = weaks

\* the body of the call ends abnormally: a negative size in truncate on an
\* exclusively held writable buffer, a negative offset or amount in read, a
\* write inside the length of an exclusively held ReadOnly buffer
abnormal_step ==
    \/ call_step("truncate") /\ get_mut(file.data) /\ ret'.ofst < 0
    \/ call_step("read") /\ (ret'.ofst < 0 \/ ret'.out < 0)
    \/ /\ call_step("write") /\ rc_get_mut(file.data) /\ ~writable(data)
       /\ ret'.ofst + Len(ret'.buf) <= len(data)

\* the lease counter leaves the range of u16 in this call
lease_overflow_step ==
    \/ call_step("fetch") /\ ret'.out = 0 /\ file.memory_mapped + 1 = U16
    \/ call_step("unfetch") /\ file.memory_mapped = 0

C15_LockReadOnly ==
    [][(lock_step /\ hooked) =>
          /\ ret'.rc = IF ret'.ofst > SQLITE_LOCK_SHARED /\ data.mode = "ReadOnly"
                       THEN "SQLITE_READONLY" ELSE "SQLITE_OK"
          /\ bufs' = bufs /\ file' = file]_vars

\* C15 witness: a lock above shared has been refused on a ReadOnly buffer
C15_Witness ==
    /\ hooked /\ data.mode = "ReadOnly"
    /\ ret.op = "lock" /\ ret.ofst > SQLITE_LOCK_SHARED /\ ret.rc = "SQLITE_READONLY"

\* C13: a buffer B returned by serialize, attached with deserialize and
\* serialized again with no call in between, comes back byte for byte.
C13_RoundTrip ==
    [][(/\ ret.op = "deserialize" /\ ret.prev = "serialize"
        /\ ret'.op = "serialize" /\ ret'.prev = "round_trip") =>
          ret'.rc = "Ok" /\ ret'.buf = ret.buf]_vars

\* C13 witness: the second serialize of a round trip has returned a buffer
\* of at least two bytes that writes had changed before the first one
C13_Witness ==
    /\ ret.op = "serialize" /\ ret.prev = "round_trip" /\ ret.rc = "Ok"
    /\ Len(ret.buf) >= 2 /\ \E i \in 1..Len(ret.buf) : ret.buf[i] = 0

\* Rc::strong_count of the allocation b after the step
strong_count_after(b) == (IF hooked' /\ file'.data = b THEN 1 ELSE 0) + snaps'[b]

\* The step closes the hooked file: a detach or the drop of the connection
close_step ==
    /\ hooked /\ ret'.op \in {"detach", "drop_connection"} /\ ~hooked'
    /\ snaps' = snaps /\ weaks' = weaks

\* The step attaches a buffer to a slot that holds a hooked file
reattach_step ==
    /\ hooked /\ ret'.op \in AttachOps /\ ret' # ret
    /\ snaps' = snaps /\ weaks' = weaks

C17_WriteBack ==
    [][(close_step /\ data.mode = "Resizable") =>
          LET vec == bufs'[file.data]
          IN  /\ vec.bytes = data.bytes
              /\ len(vec) = len(data)
              /\ (ret.op = "size" /\ ret.rc = "SQLITE_OK") => len(vec) = ret.out
              /\ vec.mode = IF snaps[file.data] = 0 THEN "Vec" ELSE "Resizable"]_vars

\* C17 witness: the connection was dropped and the caller's Vec is longer
\* than when it was attached
C17_Witness ==
    /\ ~hooked /\ ret.op = "drop_connection"
    /\ bufs[1].mode = "Vec" /\ len(bufs[1]) = MaxLen /\ bufs[1].bytes[MaxLen] = 1

\* The step is a call of serialize_rc
serialize_rc_step ==
    ret'.op = "serialize_rc" /\ weaks' = weaks /\ Sum(snaps') >= Sum(snaps)

loop_step == backup.pc = "stepping" /\ backup' # backup

C19_BorrowWithinBuffer == ~dangling

\* serialize on a file that is not hooked, with every step of the
\* primitive returning
SpecBackupFair == SpecBackup /\ WF_vars(\E res \in StepResults : backup_step(res))

\* the same with another connection writing the source
SpecBackupSharedFair ==
    SpecBackupShared /\ WF_vars(\E res \in StepResults : backup_step(res))

\* C21: with every step returning and More reported finitely often, the
\* copy of a file that is not hooked returns, and it returns Ok only after
\* Done, the Busy error after Busy, the Locked error after Locked and the
\* error of the step after an error.
C21_CopyReturns ==
    /\ (backup.pc = "stepping") ~> (backup.pc = "idle" /\ ret.rc # "panic")
    /\ [](backup.pc = "idle" /\ ret.op = "serialize" =>
            /\ ret.rc = "Ok" => backup.r = "Done"
            /\ ret.rc = "SQLITE_BUSY" <=> backup.r = "Busy"
            /\ ret.rc = "SQLITE_LOCKED" <=> backup.r = "Locked"
            /\ ret.rc \in {"Err", "SQLITE_FULL"} <=> backup.r = "Error")

\* C22: whenever the copy of a file that is not hooked returns, the length
\* assertion has not failed, and a buffer it returns has the length queried
\* before the backup started, also when another connection changed the page
\* count of the source in between.
C22_LengthAsQueried ==
    (backup.pc = "idle" /\ ret.op = "serialize" /\ ~hooked) =>
        /\ ret.rc # "panic"
        /\ ret.rc = "Ok" => Len(ret.buf) = backup.db_size

\* The step is a call of serialize or of a deserialize method that names a
\* schema the connection does not have
no_schema_step(ops) ==
    /\ ret'.op \in ops /\ db_name' # Main
    /\ (ret' # ret \/ db_name' # db_name)

\* C23: serialize on a schema name that does not exist returns Ok(None) and
\* changes nothing of the connection.
C23_SerializeNoSchema ==
    [][no_schema_step({"serialize"}) =>
          /\ ret'.rc = "None" /\ ret'.buf = <<>>
          /\ UNCHANGED <<bufs, file, snaps, weaks, backup>>]_vars

\* C23 witness: serialize on a missing schema has returned none while a
\* hooked file with content is attached to Main
C23_Witness ==
    /\ db_name # Main /\ ret.op = "serialize" /\ ret.rc = "None"
    /\ hooked /\ len(data) > 0

\* C24: deserialize on a schema name that does not exist returns an error,
\* installs no hooked record, keeps no reference to the buffer supplied and
\* leaves the files attached as they are.
C24_DeserializeNoSchema ==
    [][no_schema_step(AttachOps) =>
          /\ ret'.rc = "Err"
          /\ UNCHANGED <<bufs, file, snaps, weaks>>]_vars

\* C24 witness: deserialize of a non-empty buffer on a missing schema has
\* failed while a hooked file with other content is attached to Main
C24_Witness ==
    /\ db_name # Main /\ ret.op = "deserialize" /\ ret.rc = "Err"
    /\ hooked /\ Len(ret.buf) > 0 /\ data.bytes # ret.buf

\* a step of the statement cache, by the operation that took it
cache_step(op) == ret' # ret /\ ret'.op = op

\* the cache has no free slot
full(c) == c.capacity = Len(c.entries)

\* the statement a step of drop_cached or discard gave up
given_up == stmts[ret'.ofst]

\* what get, discard, clear and the drop of a busy statement do to the cache
check_out_step ==
    /\ cache_step("get") /\ ret'.rc = "Ok" /\ rposition(cache.entries, ret'.prev) # 0
       => /\ Len(cache'.entries) = Len(cache.entries) - 1
          /\ stmts'[Len(stmts')].sql = ret'.prev
          /\ stmts'[Len(stmts')] \in {cache.entries[i] : i \in 1..Len(cache.entries)}
    /\ cache_step("drop_cached") /\ given_up.busy => cache' = cache
    /\ cache_step("discard") => cache' = cache
    /\ cache_step("clear")
       => cache'.entries = <<>> /\ cache'.capacity = cache.capacity

lru_ordered(entries) ==
    \A i, j \in 1..Len(entries) : i < j => entries[i].t > entries[j].t

\* the entry of the cache that was returned longest ago
least_recently_used(entries) ==
    CHOOSE e \in {entries[i] : i \in 1..Len(entries)} :
        \A i \in 1..Len(entries) : e.t <= entries[i].t

\* C26: the entries are ordered from the most recently returned (front) to
\* the least recently returned (back), and a statement returned to a full
\* cache evicts the least recently used entry
C26_LruOrder ==
    /\ [](lru_ordered(cache.entries))
    /\ [][cache_step("drop_cached") /\ ~given_up.busy
          /\ full(cache) /\ cache.entries # <<>>
          => \A i \in 1..Len(cache'.entries) :
                 cache'.entries[i] # least_recently_used(cache.entries)]_vars
\* C27: a map call whose range lies within the length returns a pointer and
\* raises the lease count by exactly one, a map call whose range exceeds the
\* length returns null with success and leaves the count, and each unmap
\* lowers the count by exactly one
C27_LeaseCounting ==
    [][/\ \A ofst \in FetchOfsts :
            hooked /\ c_fetch(ofst, FetchAmt)
            => IF ofst + FetchAmt <= len(data)
               THEN /\ ret'.rc = "SQLITE_OK" /\ ret'.out # -1
                    /\ file'.memory_mapped = file.memory_mapped + 1
               ELSE /\ ret'.rc = "SQLITE_OK" /\ ret'.out = -1
                    /\ file'.memory_mapped = file.memory_mapped
       /\ hooked /\ c_unfetch
          => file'.memory_mapped = file.memory_mapped - 1]_vars
\* The step is a size-limit file control (its argument is ret'.ofst, the
\* value written back ret'.out)
size_limit_step == call_step("size_limit")

\* C28: the size-limit file control with argument v on a buffer of length L
\* and cap N keeps and returns N if v < 0, sets and returns L if 0 <= v < L,
\* sets and returns v if v >= L; it returns success and changes neither the
\* buffer nor the lease count
C28_SizeLimit ==
    [][size_limit_step =>
         LET v == ret'.ofst
             L == len(data)
             N == file.size_max
             limit == IF v < 0 THEN N ELSE IF v < L THEN L ELSE v
         IN  /\ file'.size_max = limit /\ ret'.out = limit
             /\ ret'.rc = "SQLITE_OK"
             /\ bufs' = bufs /\ file'.data = file.data
             /\ file'.memory_mapped = file.memory_mapped]_vars

\* a limit below the length was asked for and the cap is the length
C28_Witness ==
    /\ hooked /\ ret.op = "size_limit" /\ ret.rc = "SQLITE_OK"
    /\ ret.ofst >= 0 /\ ret.ofst < len(data)
    /\ file.size_max = len(data) /\ ret.out = len(data)

\* The step is a file control with an op code that is neither the name query
\* nor the size-limit negotiation
other_fcntl_step ==
    /\ hooked
    /\ \E arg \in {0} : c_file_control("SQLITE_FCNTL_OTHER", arg)

\* C29: a file control with another op code returns NotFound and leaves the
\* buffer, size_max and the lease count unchanged
C29_OtherFcntlNotFound ==
    [][other_fcntl_step =>
         /\ ret'.rc = "SQLITE_NOTFOUND"
         /\ bufs' = bufs /\ file' = file]_vars

\* an unknown op code was answered on a buffer with bytes, a cap and a lease
C29_Witness ==
    /\ hooked /\ ret.op = "file_control" /\ ret.rc = "SQLITE_NOTFOUND"
    /\ len(data) > 0 /\ file.size_max > 0 /\ file.memory_mapped > 0
\* the entry points other than write and truncate, by the name they leave
\* in ret.op
FrameOps ==
    {"read", "sync", "size", "lock", "unlock", "file_control", "size_limit",
     "device_characteristics", "fetch", "unfetch", "serialize", "serialize_rc"}

\* The step is a call of an entry point other than write and truncate on
\* the hooked file, or serialize or serialize_rc on its slot (the drop of a
\* handle leaves ret and changes snaps)
frame_step ==
    /\ hooked /\ ret'.op \in FrameOps
    /\ ret' # ret \/ snaps' = snaps

\* C30: between attach and close, read, sync, file size, lock, unlock, file
\* control, device characteristics, map, unmap, serialize and serialize_rc
\* leave the bytes, the length and the capacity of the buffer unchanged, and
\* sync always returns success
C30_FrameOfBuffer ==
    [][/\ frame_step => hooked' /\ file'.data = file.data /\ bufs' = bufs
       /\ call_step("sync") => ret'.rc = "SQLITE_OK"]_vars

\* a sync was answered on a buffer that writes have filled in part
C30_Witness ==
    /\ hooked /\ ret.op = "sync" /\ ret.rc = "SQLITE_OK"
    /\ len(data) > 0 /\ cap(data) > len(data)
\* a write of amt bytes at ofst ends within the length of d
within_length(d, ofst, amt) == ofst + amt <= len(d)

\* C31: a successful write of amt bytes at O with O + amt <= L leaves the
\* length and the capacity, sets [O, O + amt) to the payload and leaves
\* every other byte; on an exclusively held writable buffer such a write is
\* not refused as Full, whatever the lease count and size_max are, and
\* succeeds
C31_WriteWithinLength ==
    [][write_step /\ hooked /\ within_length(data, ret'.ofst, Len(ret'.buf)) =>
         LET new == bufs'[file.data] IN
         /\ ret'.rc = "SQLITE_OK" =>
               /\ len(new) = len(data) /\ cap(new) = cap(data)
               /\ \A i \in 1..len(data) :
                     new.bytes[i] = IF i > ret'.ofst /\ i <= ret'.ofst + Len(ret'.buf)
                                    THEN ret'.buf[i - ret'.ofst]
                                    ELSE data.bytes[i]
         /\ rc_get_mut(file.data) /\ writable(data) =>
               /\ ret'.rc # "SQLITE_FULL"
               /\ len(data) <= cap(data) => ret'.rc = "SQLITE_OK"]_vars

\* a write at an offset above 0 inside a file that holds a zero-filled byte
\* has succeeded while a lease was outstanding and the length was above
\* size_max
C31_Witness ==
    /\ hooked /\ ret.op = "write" /\ ret.rc = "SQLITE_OK"
    /\ ret.ofst > 0 /\ ret.ofst + Len(ret.buf) <= ret.sz
    /\ len(data) = ret.sz /\ len(data) <= cap(data)
    /\ file.memory_mapped > 0 /\ file.size_max < len(data)
    /\ \E i \in 1..len(data) : data.bytes[i] = 0
\* The step is a call of serialize on the hooked slot that returned
\* something else than the call before it (the drop of a handle leaves ret)
serialize_step == hooked /\ ret'.op = "serialize" /\ ret' # ret

\* the codes the writes of the engine would be answered with
write_answers ==
    [ofst \in 0..(MaxLen - 1), buf \in Payloads |->
        IF ofst + Len(buf) <= MaxLen
        THEN {r.rc : r \in write_outcomes(file, data, rc_get_mut(file.data), ofst, buf)}
        ELSE {}]

\* C32: serialize on a hooked slot, when it returns, returns a copy equal to
\* the bytes [0, length) of the buffer; the reference count, the buffer,
\* size_max and the lease count are the same afterwards, and every write is
\* answered after the call as it would have been before it
C32_SerializeNoEffect ==
    [][serialize_step =>
         /\ ret'.rc = "Ok" =>
               /\ Len(ret'.buf) = len(data)
               /\ \A i \in 1..len(data) : ret'.buf[i] = data.bytes[i]
         /\ bufs' = bufs /\ file' = file
         /\ snaps' = snaps /\ weaks' = weaks
         /\ strong_count_after(file.data) = strong_count(file.data)
         /\ write_answers' = write_answers]_vars

\* serialize has returned the two bytes of an exclusively held buffer with a
\* lease outstanding, which still accepts a write
C32_Witness ==
    /\ hooked /\ ret.op = "serialize" /\ ret.rc = "Ok"
    /\ ret.buf = data.bytes /\ len(data) = 2
    /\ file.memory_mapped > 0 /\ strong_count(file.data) = 1
    /\ "SQLITE_OK" \in write_answers[0, <<1>>]
\* the last call was a deserialize method that succeeded (ret.buf is the
\* bytes it was given, ret.out the size limit the reopened file reported)
just_attached == ret.op \in AttachOps /\ ret.rc = "Ok"

\* C33: right after a successful deserialize, deserialize_read_only or
\* deserialize_resizable the record has reference count one, lease count
\* zero, size_max equal to the size limit the slot's default file reported,
\* and a length and content equal to the supplied bytes; an Owned or
\* Resizable attachment refuses no write as read-only, and a write within
\* its capacity succeeds
C33_FreshAttachment ==
    just_attached =>
        /\ hooked
        /\ strong_count(file.data) = 1
        /\ file.memory_mapped = 0
        /\ file.size_max = ret.out
        /\ len(data) = Len(ret.buf) /\ data.bytes = ret.buf
        /\ data.mode \in {"Owned", "Resizable"} =>
              \A ofst \in 0..(MaxLen - 1), buf \in Payloads :
                 ofst + Len(buf) <= MaxLen =>
                    /\ write_answers[ofst, buf] \cap {"SQLITE_READONLY", "SQLITE_ERROR"} = {}
                    /\ fits_capacity(data, ofst, Len(buf))
                       => write_answers[ofst, buf] = {"SQLITE_OK"}

\* a Vec of two bytes has been attached to a slot whose default file
\* reported a size limit above the length
C33_Witness ==
    /\ just_attached /\ ret.op = "deserialize" /\ ret.prev = "none"
    /\ len(data) = 2 /\ file.size_max > len(data)
    /\ file.memory_mapped = 0 /\ strong_count(file.data) = 1
\* C34: after a truncate to n that removed bytes, a successful write at
\* O > n leaves zeros in [n, O), and a read that returns gives zeros for
\* every byte beyond n
C34_TruncatedBytesGone ==
    [][hooked /\ truncated =>
         LET n == ret.ofst IN
         /\ write_step /\ ret'.rc = "SQLITE_OK" /\ ret'.ofst > n =>
               /\ len(data) = n
               /\ \A i \in (n + 1)..ret'.ofst : bufs'[file.data].bytes[i] = 0
         /\ read_step /\ ret'.rc \in {"SQLITE_OK", "SQLITE_IOERR_SHORT_READ"} =>
               \A i \in 1..ret'.out : ret'.ofst + i > n => ret'.buf[i] = 0]_vars

\* a write beyond the end right after a truncate that removed a byte the
\* file held has succeeded, and the place of that byte holds a zero
C34_Witness ==
    /\ hooked /\ ret.op = "write" /\ ret.rc = "SQLITE_OK" /\ ret.prev = "truncated"
    /\ ret.ofst > ret.sz /\ len(data) <= cap(data)
    /\ data.bytes[ret.sz + 1] = 0
\* The step is a map call that returned a pointer (ret'.ofst is the offset
\* asked for, ret'.out the file offset of the byte the pointer addresses)
fetched_step == call_step("fetch") /\ ret'.rc = "SQLITE_OK" /\ ret'.out # -1

\* C35: the pointer a successful map(offset, amount) returns addresses the
\* byte at offset of the file, so the bytes read through it are those
\* read(offset, amount) returns
C35_FetchAddressesOffset ==
    [][fetched_step =>
         /\ ret'.out = ret'.ofst
         /\ SubSeq(data.bytes, ret'.out + 1, ret'.out + FetchAmt)
               = read_outcome(data, ret'.ofst, FetchAmt).buf]_vars
\* every handle of serialize_rc on the hooked buffer has been dropped and a
\* caller still holds a weak handle derived from one of them
only_weak_left == hooked /\ snaps[file.data] = 0 /\ weaks[file.data] > 0

\* C36: on a writable buffer, once every handle returned by serialize_rc has
\* been dropped a write is not refused as read-only and succeeds within the
\* capacity, even while a caller holds a weak handle
C36_WeakHandleAllowsWrite ==
    [][write_step /\ only_weak_left /\ writable(data) =>
         /\ ret'.rc # "SQLITE_READONLY"
         /\ fits_capacity(data, ret'.ofst, Len(ret'.buf)) /\ len(data) <= cap(data)
            => ret'.rc = "SQLITE_OK"]_vars
\* C37: the lease count never wraps: an unmap with no lease outstanding
\* leaves the count at zero, and a map with 65535 leases outstanding does
\* not set it to zero
C37_LeaseNeverWraps ==
    [][/\ call_step("unfetch") /\ file.memory_mapped = 0
          => file'.memory_mapped = 0
       /\ call_step("fetch") /\ file.memory_mapped = U16 - 1
          => file'.memory_mapped # 0]_vars
\* the operations on a StatementCache after its construction
CacheOps == {"get", "stmt_step", "drop_cached", "discard", "clear"}

\* C38: the cache never holds more statements than its capacity, and its
\* capacity is the value given at construction (ret'.ofst of cache_new) and
\* stays that value through get, drop, discard and clear
C38_CapacityKept ==
    /\ [](Len(cache.entries) <= cache.capacity)
    /\ [][/\ cache_step("cache_new") => cache'.capacity = ret'.ofst
          /\ ret' # ret /\ ret'.op \in CacheOps
             => cache'.capacity = cache.capacity]_vars
\* The step is a step of the backup into the output buffer (a change of the
\* source by another connection changes backup.src)
backup_write_step ==
    backup.pc = "stepping" /\ backup' # backup /\ backup'.src = backup.src

\* C39: in the fallback copy the output buffer is never re-allocated: its
\* capacity after a step is the pre-sized one, the writes of a step that fit
\* that capacity are not refused as Full, and a step with a write that needs
\* more capacity fails with Full
C39_OutputNeverReallocated ==
    [][backup_write_step =>
         /\ cap(backup'.vec) = cap(backup.vec)
         /\ ret'.rc = "SQLITE_FULL" <=> backup'.copied > cap(backup.vec)]_vars
====
